---------------------------- MODULE Spec2Model ----------------------------
(***************************************************************************)
(* Model of custom_components/iris_light/light.py: the Light entity of the *)
(* Iris light platform.  The entity caches three fields fetched from the   *)
(* device (_brightness, _color_temp, _state), converts between the native  *)
(* scales (1..10, 1..11) and the host scales (1..255, 155..500 mireds),    *)
(* and talks to the device with one GET and five POST commands.            *)
(*                                                                         *)
(* Every coroutine is cut at its awaits: the code between two awaits runs  *)
(* without interruption on the event loop, so it is one step here.  One    *)
(* command call (async_turn_on / async_turn_off) and one refresh           *)
(* (get_update) may be in flight at the same time.                         *)
(***************************************************************************)
EXTENDS Integers, Sequences, FiniteSets, TLC

VARIABLES
    _brightness,   \* Light._brightness  (native brightness, cached)
    _color_temp,   \* Light._color_temp  (native colour temperature, cached)
    _state,        \* Light._state       (0 off, 1 night, 2 on, cached)
    added,         \* async_add_entities([light]) has been called
    call,          \* the command coroutine started last ("none" before any)
    kwargs,        \* its keyword arguments, a function on the keys given
    cmdPc,         \* the POST that coroutine is awaiting, or "idle"
    posts,         \* the POSTs that coroutine has issued, in order
    cmdResult,     \* how it ended: "none" (running), "returned", "ClientError"
    updPc,         \* where get_update is: "idle", "get", "json"
    response,      \* the response get_update received
    updResult,     \* how it ended: "none", "returned", or the exception raised
    gets,          \* GETs issued by the current get_update
    writes,        \* async_write_ha_state calls of the current get_update
    ha_state,      \* what the host read last from the entity's properties
    device,        \* the device's own (brightness, color_temp, state)
    settled,       \* the host has stopped sending commands, the device is at rest
    cmdPc2,        \* a second, concurrent async_turn_on: the POST it awaits
    kwargs2,       \* its keyword arguments
    posts2         \* the POSTs it has issued, in order

vars == <<_brightness, _color_temp, _state, added, call, kwargs, cmdPc, posts,
          cmdResult, updPc, response, updResult, gets, writes, ha_state,
          device, settled, cmdPc2, kwargs2, posts2>>

cache == <<_brightness, _color_temp, _state>>
cmdVars == <<call, kwargs, cmdPc, posts, cmdResult>>
updVars == <<updPc, response, updResult, gets, writes>>
envVars == <<device, settled, cmdPc2, kwargs2, posts2>>

(***************************************************************************)
(* Python values.  None is the empty tuple and an optional value v is the  *)
(* one-element tuple <<v>>, so that None compares with every value.        *)
(***************************************************************************)
None == <<>>
Some(v) == <<v>>

min(a, b) == IF a <= b THEN a ELSE b
max(a, b) == IF a >= b THEN a ELSE b

(***************************************************************************)
(* Class attributes of Light.                                              *)
(***************************************************************************)
BRIGHTNESS_SCALE == <<1, 10>>
COLOR_TEMP_SCALE == <<1, 11>>
HOST_BRIGHTNESS_RANGE == <<5, 255>>
HOST_COLOR_TEMP_RANGE == <<155, 500>>
DefaultBrightness == 10
DefaultColorTemp == 6
DefaultState == 2

(***************************************************************************)
(* homeassistant.util.scaling, imported at line 15 (library code):         *)
(*   states_in_range(r)            = r[1] - r[0] + 1                       *)
(*   scale_to_ranged_value(s,t,v)  = (v - (s[0]-1)) * states_in_range(t)   *)
(*                                     / states_in_range(s) + (t[0]-1)     *)
(* The result is a float; it is kept here as the exact fraction <<n, d>>   *)
(* with d > 0.  Every value the program rounds is a multiple of 1/251,     *)
(* 1/11 or 1/10 of magnitude below 2^20, so the float is on the same side  *)
(* of every integer and of every half as the fraction.                     *)
(***************************************************************************)
states_in_range(low_high_range) == low_high_range[2] - low_high_range[1] + 1

scale_to_ranged_value(source, target, value) ==
    LET source_offset == source[1] - 1
        target_offset == target[1] - 1
    IN  << (value - source_offset) * states_in_range(target)
              + target_offset * states_in_range(source),
           states_in_range(source) >>

\* (int(): truncation toward zero instead of math.ceil)
ceil_as_int(q) == IF q[1] >= 0 THEN q[1] \div q[2] ELSE -((-q[1]) \div q[2])

\* math.ceil of a fraction
ceil(q) == -((-q[1]) \div q[2])

\* Python's round() of a fraction: to the nearest integer, a tie to the even one
round(q) ==
    LET fl == q[1] \div q[2]
        twice == 2 * (q[1] - fl * q[2])
    IN  IF twice < q[2] THEN fl
        ELSE IF twice > q[2] THEN fl + 1
        ELSE IF fl % 2 = 0 THEN fl ELSE fl + 1

\* (the host range taken as 1..255 instead of 5..255)
_value_to_brightness_from_1(low_high_range, value) ==
    min(255, max(1, round(scale_to_ranged_value(low_high_range, <<1, 255>>,
                                                value))))

\* (the result wrapped into a byte instead of clamped)
_value_to_brightness_wrapped(low_high_range, value) ==
    round(scale_to_ranged_value(low_high_range, HOST_BRIGHTNESS_RANGE, value))
        % 255

\* Light._value_to_brightness
_value_to_brightness(low_high_range, value) ==
    min(255, max(1, round(scale_to_ranged_value(low_high_range,
                                                HOST_BRIGHTNESS_RANGE, value))))

\* (the host range taken as 1..255 instead of 5..255)
_brightness_to_value_from_1(low_high_range, b) ==
    scale_to_ranged_value(<<1, 255>>, low_high_range, b)

\* (the two ranges passed to scale_to_ranged_value in the other order)
_brightness_to_value_swapped(low_high_range, b) ==
    scale_to_ranged_value(low_high_range, HOST_BRIGHTNESS_RANGE, b)

\* Light._brightness_to_value
_brightness_to_value(low_high_range, b) ==
    scale_to_ranged_value(HOST_BRIGHTNESS_RANGE, low_high_range, b)

(***************************************************************************)
(* The properties the host reads.                                          *)
(***************************************************************************)
\* (night mode recognised by the cached brightness instead of the state)
brightness_night_by_value ==
    IF _brightness = 1 THEN 1
    ELSE _value_to_brightness(BRIGHTNESS_SCALE, _brightness)

\* Light.brightness
brightness ==
    IF _state = 1 THEN 1
    ELSE _value_to_brightness(BRIGHTNESS_SCALE, _brightness)

\* (the mired range written high end first)
color_temp_of_reversed(value) ==
    ceil(scale_to_ranged_value(COLOR_TEMP_SCALE, <<500, 155>>, value))

\* Light.color_temp, as a function of the cached value
color_temp_of(value) ==
    ceil(scale_to_ranged_value(COLOR_TEMP_SCALE, HOST_COLOR_TEMP_RANGE, value))

color_temp == color_temp_of(_color_temp)

\* Light.is_on
is_on == _state # 0

\* What the host reads when it renders the entity.
HostView ==
    [is_on |-> is_on, brightness |-> brightness, color_temp |-> color_temp]


(***************************************************************************)
(* Commands.  A request is {"value": value} POSTed to self._url + url; the  *)
(* value is None or Some(v).                                               *)
(***************************************************************************)
Post(url, value) == [url |-> url, json |-> [value |-> value]]

\* Light._post_data up to its await: the request is issued and the caller
\* is suspended until session.post returns or raises.
_post_data(url, value) ==
    /\ posts' = Append(posts, Post(url, value))
    /\ cmdPc' = url

\* The keyword arguments a call may carry: each of brightness and color_temp
\* given or not.
KwargsOf(B, C) ==
    {<<>>}
        \cup {("brightness" :> b) : b \in B}
        \cup {("color_temp" :> c) : c \in C}
        \cup {("brightness" :> b) @@ ("color_temp" :> c) : b \in B, c \in C}

Has(kw, key) == key \in DOMAIN kw

\* (async_turn_on comparing the brightness with 0 instead of 1)
async_turn_on_night_at_0(kw) ==
    /\ added
    /\ cmdPc = "idle"
    /\ call' = "async_turn_on"
    /\ kwargs' = kw
    /\ cmdResult' = "none"
    /\ cmdPc' = IF Has(kw, "brightness") /\ kw["brightness"] = 0
                THEN "night" ELSE "on"
    /\ posts' = <<Post(cmdPc', None)>>
    /\ UNCHANGED <<cache, added, updVars, ha_state, envVars>>

\* Light.async_turn_on, lines 97-103: up to the first await.
async_turn_on(kw) ==
    /\ added
    /\ cmdPc = "idle"
    /\ call' = "async_turn_on"
    /\ kwargs' = kw
    /\ cmdResult' = "none"
    /\ cmdPc' = IF Has(kw, "brightness") /\ kw["brightness"] = 1
                THEN "night" ELSE "on"
    /\ posts' = <<Post(cmdPc', None)>>
    /\ UNCHANGED <<cache, added, updVars, ha_state, envVars>>

\* (the 'bright' POST issued before the assignment, with the value the cache
\* held)
async_turn_on_brightness_stale ==
    /\ call = "async_turn_on"
    /\ cmdPc = "on"
    /\ Has(kwargs, "brightness")
    /\ _brightness' =
           ceil(_brightness_to_value(BRIGHTNESS_SCALE, kwargs["brightness"]))
    /\ _post_data("bright", Some(_brightness))
    /\ UNCHANGED <<_color_temp, _state, added, call, kwargs, cmdResult,
                   updVars, ha_state, envVars>>

\* lines 104-108: resumed after "on", a brightness was given.
async_turn_on_brightness ==
    /\ call = "async_turn_on"
    /\ cmdPc = "on"
    /\ Has(kwargs, "brightness")
    /\ _brightness' =
           ceil(_brightness_to_value(BRIGHTNESS_SCALE, kwargs["brightness"]))
    /\ _post_data("bright", Some(_brightness'))
    /\ UNCHANGED <<_color_temp, _state, added, call, kwargs, cmdResult,
                   updVars, ha_state, envVars>>

\* lines 109-115: resumed after "on" or "bright", a colour temperature was
\* given.
async_turn_on_color_temp ==
    /\ call = "async_turn_on"
    /\ \/ cmdPc = "on" /\ ~Has(kwargs, "brightness")
       \/ cmdPc = "bright"
    /\ Has(kwargs, "color_temp")
    /\ _color_temp' =
           ceil(scale_to_ranged_value(HOST_COLOR_TEMP_RANGE, COLOR_TEMP_SCALE,
                                      kwargs["color_temp"]))
    /\ _post_data("color-temp", Some(_color_temp'))
    /\ UNCHANGED <<_brightness, _state, added, call, kwargs, cmdResult,
                   updVars, ha_state, envVars>>

\* (async_turn_on storing the on state when it returns)
async_turn_on_return_sets_on ==
    /\ call = "async_turn_on"
    /\ \/ cmdPc = "night"
       \/ cmdPc = "on" /\ ~Has(kwargs, "brightness") /\ ~Has(kwargs, "color_temp")
       \/ cmdPc = "bright" /\ ~Has(kwargs, "color_temp")
       \/ cmdPc = "color-temp"
    /\ cmdPc' = "idle"
    /\ cmdResult' = "returned"
    /\ _state' = 2
    /\ UNCHANGED <<_brightness, _color_temp, added, call, kwargs, posts,
                   updVars, ha_state, envVars>>

\* The last awaited POST returned: line 102 (after "night"), or the end of
\* the function.
async_turn_on_return ==
    /\ call = "async_turn_on"
    /\ \/ cmdPc = "night"
       \/ cmdPc = "on" /\ ~Has(kwargs, "brightness") /\ ~Has(kwargs, "color_temp")
       \/ cmdPc = "bright" /\ ~Has(kwargs, "color_temp")
       \/ cmdPc = "color-temp"
    /\ cmdPc' = "idle"
    /\ cmdResult' = "returned"
    /\ UNCHANGED <<cache, added, call, kwargs, posts, updVars, ha_state, envVars>>

\* (async_turn_off storing the off state at once)
async_turn_off_optimistic ==
    /\ added
    /\ cmdPc = "idle"
    /\ call' = "async_turn_off"
    /\ kwargs' = <<>>
    /\ cmdResult' = "none"
    /\ cmdPc' = "off"
    /\ posts' = <<Post("off", None)>>
    /\ _state' = 0
    /\ UNCHANGED <<_brightness, _color_temp, added, updVars, ha_state, envVars>>

\* Light.async_turn_off, up to its await.  Its kwargs are not read.
async_turn_off ==
    /\ added
    /\ cmdPc = "idle"
    /\ call' = "async_turn_off"
    /\ kwargs' = <<>>
    /\ cmdResult' = "none"
    /\ cmdPc' = "off"
    /\ posts' = <<Post("off", None)>>
    /\ UNCHANGED <<cache, added, updVars, ha_state, envVars>>

async_turn_off_return ==
    /\ call = "async_turn_off"
    /\ cmdPc = "off"
    /\ cmdPc' = "idle"
    /\ cmdResult' = "returned"
    /\ UNCHANGED <<cache, added, call, kwargs, posts, updVars, ha_state, envVars>>

\* (the failure recorded, the coroutine carrying on with its next step)
_post_data_raises_continues ==
    /\ cmdPc # "idle"
    /\ cmdResult = "none"
    /\ cmdResult' = "ClientError"
    /\ UNCHANGED <<cache, added, call, kwargs, cmdPc, posts, updVars, ha_state,
                   envVars>>

\* (the failure undoing the call's writes: the instance attributes deleted,
\* so that the class defaults show again)
_post_data_raises_rollback ==
    /\ cmdPc # "idle"
    /\ cmdPc' = "idle"
    /\ cmdResult' = "ClientError"
    /\ _brightness' = DefaultBrightness
    /\ _color_temp' = DefaultColorTemp
    /\ UNCHANGED <<_state, added, call, kwargs, posts, updVars, ha_state,
                   envVars>>

\* session.post raises (a transport failure) in the awaited _post_data: no
\* handler catches it, so the exception leaves the command coroutine.
_post_data_raises ==
    /\ cmdPc # "idle"
    /\ cmdPc' = "idle"
    /\ cmdResult' = "ClientError"
    /\ UNCHANGED <<cache, added, call, kwargs, posts, updVars, ha_state, envVars>>


(***************************************************************************)
(* Refresh.  The device answers the GET with a body that is either not     *)
(* JSON (json |-> None) or a JSON object, a function on the keys it has.   *)
(***************************************************************************)
NoResponse == [json |-> None]

\* The JSON object with the fields whose option is given.
Object(ob, oc, os) ==
    [k \in {x \in {"brightness", "color_temp", "state"} :
               \/ x = "brightness" /\ ob # None
               \/ x = "color_temp" /\ oc # None
               \/ x = "state" /\ os # None}
        |-> CASE k = "brightness" -> ob[1]
              [] k = "color_temp" -> oc[1]
              [] k = "state" -> os[1]]

Opt(S) == {None} \cup {Some(x) : x \in S}

\* The responses with field values from B, C and S, each field possibly
\* missing, and the response whose body is not JSON.
ResponsesOf(B, C, S) ==
    {[json |-> None]}
        \cup {[json |-> Some(Object(ob, oc, os))] :
                 ob \in Opt(B), oc \in Opt(C), os \in Opt(S)}

\* Light.get_update up to its await: the GET is issued.
get_update ==
    /\ updPc' = "get"
    /\ gets' = 1
    /\ writes' = 0
    /\ updResult' = "none"
    /\ response' = NoResponse

\* async_setup_entry: the entity is constructed (Init), handed to the host,
\* and only then is the first state fetched.
async_setup_entry ==
    /\ ~added
    /\ added' = TRUE
    /\ get_update
    /\ UNCHANGED <<cache, cmdVars, ha_state, envVars>>

\* Light.async_update: the host's poll.
async_update ==
    /\ added
    /\ updPc = "idle"
    /\ get_update
    /\ UNCHANGED <<cache, added, cmdVars, ha_state, envVars>>

\* session.get returned r: get_update calls _set_update, which awaits
\* response.json().
get_update_response(r) ==
    /\ updPc = "get"
    /\ updPc' = "json"
    /\ response' = r
    /\ UNCHANGED <<cache, added, cmdVars, updResult, gets, writes, ha_state, envVars>>

\* (a failed GET issued again instead of raised)
get_update_raises_retry ==
    /\ updPc = "get"
    /\ gets' = gets + 1
    /\ UNCHANGED <<cache, added, cmdVars, updPc, response, updResult, writes,
                   ha_state, envVars>>

\* session.get raised: the exception leaves get_update.
get_update_raises ==
    /\ updPc = "get"
    /\ updPc' = "idle"
    /\ updResult' = "ClientError"
    /\ UNCHANGED <<cache, added, cmdVars, response, gets, writes, ha_state, envVars>>

\* self.async_write_ha_state(): the host is told to render the entity and
\* reads its properties.
async_write_ha_state_missing == UNCHANGED <<writes, ha_state>>

async_write_ha_state ==
    /\ writes' = writes + 1
    /\ ha_state' = Some(HostView')

\* (_set_update leaving out the assignment of the state)
_set_update_without_state ==
    /\ updPc = "json"
    /\ updPc' = "idle"
    /\ response' = NoResponse
    /\ IF response.json = None
       THEN /\ updResult' = "JSONDecodeError"
            /\ UNCHANGED <<cache, writes, ha_state>>
       ELSE LET data == response.json[1]
            IN  IF ~Has(data, "brightness")
                THEN /\ updResult' = "KeyError"
                     /\ UNCHANGED <<cache, writes, ha_state>>
                ELSE IF ~Has(data, "color_temp")
                THEN /\ _brightness' = data["brightness"]
                     /\ updResult' = "KeyError"
                     /\ UNCHANGED <<_color_temp, _state, writes, ha_state>>
                ELSE /\ _brightness' = data["brightness"]
                     /\ _color_temp' = data["color_temp"]
                     /\ UNCHANGED _state
                     /\ async_write_ha_state
                     /\ updResult' = "returned"
    /\ UNCHANGED <<added, cmdVars, gets, envVars>>

\* (_set_update storing only the fields whose value is truthy: a reported
\* 0 is skipped)
_set_update_if_truthy ==
    /\ updPc = "json"
    /\ updPc' = "idle"
    /\ response' = NoResponse
    /\ IF response.json = None
       THEN /\ updResult' = "JSONDecodeError"
            /\ UNCHANGED <<cache, writes, ha_state>>
       ELSE LET data == response.json[1]
            IN  IF ~Has(data, "brightness")
                THEN /\ updResult' = "KeyError"
                     /\ UNCHANGED <<cache, writes, ha_state>>
                ELSE IF ~Has(data, "color_temp")
                THEN /\ _brightness' = data["brightness"]
                     /\ updResult' = "KeyError"
                     /\ UNCHANGED <<_color_temp, _state, writes, ha_state>>
                ELSE IF ~Has(data, "state")
                THEN /\ _brightness' = data["brightness"]
                     /\ _color_temp' = data["color_temp"]
                     /\ updResult' = "KeyError"
                     /\ UNCHANGED <<_state, writes, ha_state>>
                ELSE /\ _brightness' = data["brightness"]
                     /\ _color_temp' = data["color_temp"]
                     /\ _state' = IF data["state"] # 0 THEN data["state"]
                                  ELSE _state
                     /\ async_write_ha_state
                     /\ updResult' = "returned"
    /\ UNCHANGED <<added, cmdVars, gets, envVars>>

\* Light._set_update after its await, lines 142-145: the three assignments
\* run in order, each raising KeyError when its key is missing, and
\* async_write_ha_state follows the third.
_set_update ==
    /\ updPc = "json"
    /\ updPc' = "idle"
    /\ response' = NoResponse
    /\ IF response.json = None
       THEN /\ updResult' = "JSONDecodeError"
            /\ UNCHANGED <<cache, writes, ha_state>>
       ELSE LET data == response.json[1]
            IN  IF ~Has(data, "brightness")
                THEN /\ updResult' = "KeyError"
                     /\ UNCHANGED <<cache, writes, ha_state>>
                ELSE IF ~Has(data, "color_temp")
                THEN /\ _brightness' = data["brightness"]
                     /\ updResult' = "KeyError"
                     /\ UNCHANGED <<_color_temp, _state, writes, ha_state>>
                ELSE IF ~Has(data, "state")
                THEN /\ _brightness' = data["brightness"]
                     /\ _color_temp' = data["color_temp"]
                     /\ updResult' = "KeyError"
                     /\ UNCHANGED <<_state, writes, ha_state>>
                ELSE /\ _brightness' = data["brightness"]
                     /\ _color_temp' = data["color_temp"]
                     /\ _state' = data["state"]
                     /\ async_write_ha_state
                     /\ updResult' = "returned"
    /\ UNCHANGED <<added, cmdVars, gets, envVars>>

\* The host renders the entity: it reads the three properties.
read_properties ==
    /\ added
    /\ ha_state' = Some(HostView)
    /\ ha_state' # ha_state
    /\ UNCHANGED <<cache, added, cmdVars, updVars, envVars>>

(***************************************************************************)
(* The program: one entity, the host's commands with a few host values     *)
(* (the night value 1, values below, inside and at the end of the mapped   *)
(* range), and a device that answers with native values.                   *)
(***************************************************************************)
Init ==
    /\ _brightness = DefaultBrightness
    /\ _color_temp = DefaultColorTemp
    /\ _state = DefaultState
    /\ added = FALSE
    /\ call = "none"
    /\ kwargs = <<>>
    /\ cmdPc = "idle"
    /\ posts = <<>>
    /\ cmdResult = "none"
    /\ updPc = "idle"
    /\ response = NoResponse
    /\ updResult = "none"
    /\ gets = 0
    /\ writes = 0
    /\ ha_state = None
    /\ device = <<DefaultBrightness, DefaultColorTemp, DefaultState>>
    /\ settled = FALSE
    /\ cmdPc2 = "idle"
    /\ kwargs2 = <<>>
    /\ posts2 = <<>>

HostBrightnesses == {1, 3, 128}
HostColorTemps == {500}
DeviceBrightnesses == {1, 3}
DeviceColorTemps == {4}
DeviceStates == {0, 1, 2}

Next ==
    \/ async_setup_entry
    \/ \E kw \in KwargsOf(HostBrightnesses, HostColorTemps) : async_turn_on(kw)
    \/ async_turn_on_brightness
    \/ async_turn_on_color_temp
    \/ async_turn_on_return
    \/ async_turn_off
    \/ async_turn_off_return
    \/ _post_data_raises
    \/ async_update
    \/ \E r \in ResponsesOf(DeviceBrightnesses, DeviceColorTemps, DeviceStates) :
           get_update_response(r)
    \/ get_update_raises
    \/ _set_update
    \/ read_properties

Spec == Init /\ [][Next]_vars

(***************************************************************************)
(* The read conversions on every cached value.  The setup fetch is         *)
(* answered with any well-formed body whose numbers lie in or around the   *)
(* native domains, _set_update applies it and async_write_ha_state reads   *)
(* the properties.                                                         *)
(***************************************************************************)
Slack == 2
NativeBrightnesses == (1 - Slack)..(10 + Slack)
NativeColorTemps == (1 - Slack)..(11 + Slack)
NativeStates == 0..(2 + Slack)

WellFormedOf(B, C, S) ==
    {[json |-> Some(Object(Some(b), Some(c), Some(st)))] :
        b \in B, c \in C, st \in S}

NextRead ==
    \/ async_setup_entry
    \/ \E r \in WellFormedOf(NativeBrightnesses, NativeColorTemps, NativeStates) :
           get_update_response(r)
    \/ _set_update
    \/ read_properties

SpecRead == Init /\ [][NextRead]_vars

(***************************************************************************)
(* The write conversions on every host value: one async_turn_on with any   *)
(* brightness in 1..255 and any colour temperature in 155..500, each given *)
(* or not, while the setup fetch is still unanswered; the host reads the   *)
(* properties once the call has ended.                                     *)
(***************************************************************************)
AllHostBrightnesses == 1..255
AllHostColorTemps == 155..500

NextWrite ==
    \/ async_setup_entry
    \/ /\ call = "none"
       /\ \E kw \in KwargsOf(AllHostBrightnesses, AllHostColorTemps) :
              async_turn_on(kw)
    \/ async_turn_on_brightness
    \/ async_turn_on_color_temp
    \/ async_turn_on_return
    \/ _post_data_raises
    \/ /\ call # "none"
       /\ cmdPc = "idle"
       /\ read_properties

SpecWrite == Init /\ [][NextWrite]_vars

(***************************************************************************)
(* Polling.  The device has a state of its own, which the GET reports and  *)
(* which changes by itself or by the commands it receives until the point  *)
(* (settle) from which the host sends no further command and the device is *)
(* at rest; from then on every GET is answered.  The host keeps polling,   *)
(* every request issued is answered or fails, and the event loop resumes   *)
(* every coroutine whose await has completed.                              *)
(***************************************************************************)
PollBrightnesses == {1, 3}
PollColorTemps == {500}
PollDeviceStates == {<<3, 4, 0>>, <<1, 11, 1>>}

\* Answers of a device not yet at rest: a body that is not JSON, a body
\* without "state".
PollBadResponses ==
    {[json |-> None], [json |-> Some(Object(Some(1), Some(4), None))]}

\* The body with which the device reports its state.
DeviceResponse ==
    [json |-> Some(Object(Some(device[1]), Some(device[2]), Some(device[3])))]

\* The device's state changes.
device_changes(d) ==
    /\ ~settled
    /\ d # device
    /\ device' = d
    /\ UNCHANGED <<cache, added, cmdVars, updVars, ha_state, settled, cmdPc2,
                   kwargs2, posts2>>

\* The last command has been sent and the device has come to rest.
settle ==
    /\ added
    /\ ~settled
    /\ settled' = TRUE
    /\ UNCHANGED <<cache, added, cmdVars, updVars, ha_state, device, cmdPc2,
                   kwargs2, posts2>>

\* A command coroutine is resumed: its awaited POST returned or raised.
CommandStep ==
    \/ async_turn_on_brightness
    \/ async_turn_on_color_temp
    \/ async_turn_on_return
    \/ async_turn_off_return
    \/ _post_data_raises

NextPoll ==
    \/ async_setup_entry
    \/ /\ ~settled
       /\ \E kw \in KwargsOf(PollBrightnesses, PollColorTemps) : async_turn_on(kw)
    \/ /\ ~settled
       /\ async_turn_off
    \/ async_turn_on_brightness
    \/ async_turn_on_color_temp
    \/ async_turn_on_return
    \/ async_turn_off_return
    \/ _post_data_raises
    \/ async_update
    \/ get_update_response(DeviceResponse)
    \/ /\ ~settled
       /\ \E r \in PollBadResponses : get_update_response(r)
    \/ /\ ~settled
       /\ get_update_raises
    \/ _set_update
    \/ \E d \in PollDeviceStates : device_changes(d)
    \/ settle

SpecPoll ==
    /\ Init
    /\ [][NextPoll]_vars
    /\ WF_vars(async_update)
    /\ WF_vars(get_update_response(DeviceResponse))
    /\ WF_vars(_set_update)
    /\ WF_vars(CommandStep)

(***************************************************************************)
(* Whole responses.  The device answers with one of two well-formed        *)
(* bodies that differ in every field, and whose values no command writes   *)
(* (the commands of Spec store brightness 0 or 5 and colour temperature    *)
(* 11), so a cached field tells which response it came from.               *)
(***************************************************************************)
TornStates == {<<1, 4, 0>>, <<3, 7, 2>>}

TornResponses ==
    {[json |-> Some(Object(Some(t[1]), Some(t[2]), Some(t[3])))] :
        t \in TornStates}

NextTorn ==
    \/ async_setup_entry
    \/ \E kw \in KwargsOf(HostBrightnesses, HostColorTemps) : async_turn_on(kw)
    \/ async_turn_on_brightness
    \/ async_turn_on_color_temp
    \/ async_turn_on_return
    \/ async_turn_off
    \/ async_turn_off_return
    \/ _post_data_raises
    \/ async_update
    \/ \E r \in TornResponses : get_update_response(r)
    \/ get_update_raises
    \/ _set_update
    \/ read_properties

SpecTorn == Init /\ [][NextTorn]_vars

\* What the host last read of the entity, if it has read it.
HasRendered == ha_state # None
Rendered == ha_state[1]

(***************************************************************************)
(* Reading and writing back.  The setup fetch is answered with any         *)
(* well-formed body of native values; once the host has read the           *)
(* properties it calls async_turn_on once, with the brightness and the     *)
(* colour temperature it has read, each given or not.                      *)
(***************************************************************************)
DomainBrightnesses == BRIGHTNESS_SCALE[1]..BRIGHTNESS_SCALE[2]
DomainColorTemps == COLOR_TEMP_SCALE[1]..COLOR_TEMP_SCALE[2]
DomainStates == {0, 1, 2}

NextRoundTrip ==
    \/ async_setup_entry
    \/ \E r \in WellFormedOf(DomainBrightnesses, DomainColorTemps, DomainStates) :
           get_update_response(r)
    \/ _set_update
    \/ /\ HasRendered
       /\ call = "none"
       /\ \E kw \in KwargsOf({Rendered.brightness}, {Rendered.color_temp}) :
              async_turn_on(kw)
    \/ async_turn_on_brightness
    \/ async_turn_on_color_temp
    \/ async_turn_on_return
    \/ _post_data_raises

SpecRoundTrip == Init /\ [][NextRoundTrip]_vars

(***************************************************************************)
(* Concurrent commands.  The host may call async_turn_on again while a     *)
(* call is suspended at a POST: a second coroutine runs the same code on   *)
(* the same entity and is resumed independently of the first, and          *)
(* refreshes interleave with both.  The two calls carry different values   *)
(* and the device reports values neither of them stores.                   *)
(***************************************************************************)
\* Light.async_turn_on in the second coroutine, up to its first await.
async_turn_on_2(kw) ==
    /\ added
    /\ cmdPc2 = "idle"
    /\ kwargs2' = kw
    /\ cmdPc2' = IF Has(kw, "brightness") /\ kw["brightness"] = 1
                 THEN "night" ELSE "on"
    /\ posts2' = <<Post(cmdPc2', None)>>
    /\ UNCHANGED <<cache, added, cmdVars, updVars, ha_state, device, settled>>

\* lines 104-108 in the second coroutine.
async_turn_on_brightness_2 ==
    /\ cmdPc2 = "on"
    /\ Has(kwargs2, "brightness")
    /\ _brightness' =
           ceil(_brightness_to_value(BRIGHTNESS_SCALE, kwargs2["brightness"]))
    /\ posts2' = Append(posts2, Post("bright", Some(_brightness')))
    /\ cmdPc2' = "bright"
    /\ UNCHANGED <<_color_temp, _state, added, cmdVars, updVars, ha_state,
                   device, settled, kwargs2>>

\* lines 109-115 in the second coroutine.
async_turn_on_color_temp_2 ==
    /\ \/ cmdPc2 = "on" /\ ~Has(kwargs2, "brightness")
       \/ cmdPc2 = "bright"
    /\ Has(kwargs2, "color_temp")
    /\ _color_temp' =
           ceil(scale_to_ranged_value(HOST_COLOR_TEMP_RANGE, COLOR_TEMP_SCALE,
                                      kwargs2["color_temp"]))
    /\ posts2' = Append(posts2, Post("color-temp", Some(_color_temp')))
    /\ cmdPc2' = "color-temp"
    /\ UNCHANGED <<_brightness, _state, added, cmdVars, updVars, ha_state,
                   device, settled, kwargs2>>

\* The second coroutine ends: its last awaited POST returned, or the POST it
\* awaits raised.
async_turn_on_ends_2 ==
    /\ cmdPc2 # "idle"
    /\ cmdPc2' = "idle"
    /\ UNCHANGED <<cache, added, cmdVars, updVars, ha_state, device, settled,
                   kwargs2, posts2>>

FirstBrightnesses == {3, 128}
FirstColorTemps == {500}
SecondBrightnesses == {255}
SecondColorTemps == {155}
ConcurrentResponses == WellFormedOf({7}, {4}, {0})

NextConcurrent ==
    \/ async_setup_entry
    \/ \E kw \in KwargsOf(FirstBrightnesses, FirstColorTemps) : async_turn_on(kw)
    \/ async_turn_on_brightness
    \/ async_turn_on_color_temp
    \/ async_turn_on_return
    \/ _post_data_raises
    \/ \E kw \in KwargsOf(SecondBrightnesses, SecondColorTemps) :
           async_turn_on_2(kw)
    \/ async_turn_on_brightness_2
    \/ async_turn_on_color_temp_2
    \/ async_turn_on_ends_2
    \/ async_update
    \/ \E r \in ConcurrentResponses : get_update_response(r)
    \/ get_update_raises
    \/ _set_update

SpecConcurrent == Init /\ [][NextConcurrent]_vars

(***************************************************************************)
(*                              Properties                                 *)
(***************************************************************************)
RequiredFields == {"brightness", "color_temp", "state"}

\* The response held is JSON with all three fields / with a field missing.
WellFormed(r) == r.json # None /\ DOMAIN r.json[1] = RequiredFields
FieldMissing(r) == r.json # None /\ DOMAIN r.json[1] # RequiredFields

\* The step in which _set_update runs on the response held.
SetUpdateStep == updPc = "json" /\ updPc' = "idle"

\* C1: a refresh whose response lacks a required field ends in an error,
\* leaves the three cached fields as they were and sends no notification.
C1_MissingFieldLeavesCache ==
    [][(SetUpdateStep /\ FieldMissing(response))
          => /\ updResult' = "KeyError"
             /\ cache' = cache
             /\ writes' = writes]_vars

\* C2: the cached brightness is always in 1..10, the cached colour
\* temperature in 1..11 and the cached state in {0, 1, 2}, and so is every
\* value POSTed to "bright" (1..10) and to "color-temp" (1..11).
C2_NativeDomains ==
    /\ _brightness \in 1..10
    /\ _color_temp \in 1..11
    /\ _state \in {0, 1, 2}
    /\ \A i \in 1..Len(posts) :
          /\ posts[i].url = "bright" => posts[i].json.value[1] \in 1..10
          /\ posts[i].url = "color-temp" => posts[i].json.value[1] \in 1..11

\* C3: a refresh that receives a well-formed response leaves the cache equal
\* to exactly the response's three values, whatever it held before, and
\* notifies the host exactly once.
C3_RefreshReplacesCache ==
    /\ [](updResult = "returned" => writes = 1)
    /\ [][(SetUpdateStep /\ WellFormed(response))
             => /\ cache' = <<response.json[1]["brightness"],
                              response.json[1]["color_temp"],
                              response.json[1]["state"]>>
                /\ writes' = writes + 1
                /\ updResult' = "returned"]_vars

\* A refresh has overwritten the brightness an earlier async_turn_on cached
\* (128 is stored as 5) with the device's value, and notified once.
C3_Witness ==
    /\ updResult = "returned"
    /\ writes = 1
    /\ cache = <<1, 4, 0>>
    /\ call = "async_turn_on"
    /\ cmdResult = "returned"
    /\ kwargs = ("brightness" :> 128)

\* The command coroutine started last is async_turn_on with brightness 1.
NightCall ==
    /\ call = "async_turn_on"
    /\ Has(kwargs, "brightness")
    /\ kwargs["brightness"] = 1

\* C4: async_turn_on with brightness 1, with or without a colour
\* temperature, issues the single request POST "night" with a null value and
\* none of its steps changes the cache.
C4_NightOnly ==
    /\ [](NightCall => /\ posts = <<Post("night", None)>>
                       /\ cmdPc \in {"night", "idle"})
    /\ [][(NightCall' /\ cmdVars' # cmdVars) => cache' = cache]_vars

\* A night call with a colour temperature has returned.
C4_Witness ==
    /\ NightCall
    /\ Has(kwargs, "color_temp")
    /\ cmdResult = "returned"
    /\ Len(posts) = 1

CeilDiv(n, d) == (n + d - 1) \div d

\* The POSTs claim C5 expects of a call with keyword arguments kw.
ExpectedPosts(kw) ==
    <<Post("on", None)>>
        \o (IF Has(kw, "brightness")
            THEN <<Post("bright", Some(CeilDiv((kw["brightness"] - 4) * 10, 251)))>>
            ELSE <<>>)
        \o (IF Has(kw, "color_temp")
            THEN <<Post("color-temp", Some(CeilDiv((kw["color_temp"] - 154) * 11, 346)))>>
            ELSE <<>>)

\* C5: an async_turn_on with brightness b in 2..255 and/or colour temperature
\* c in 155..500 in which no request fails issues "on" with a null value,
\* then "bright" with ceil((b-4)*10/251) when b is given, then "color-temp"
\* with ceil((c-154)*11/346) when c is given, and nothing else.
C5_OnBrightColorTemp ==
    (call = "async_turn_on" /\ cmdResult = "returned" /\ ~NightCall)
        => posts = ExpectedPosts(kwargs)

\* The call of the spec's scenario has returned after three POSTs.
C5_Witness ==
    /\ call = "async_turn_on"
    /\ cmdResult = "returned"
    /\ kwargs = ("brightness" :> 128) @@ ("color_temp" :> 300)
    /\ posts = <<Post("on", None), Post("bright", Some(5)),
                 Post("color-temp", Some(5))>>

\* The host has read the properties; Rendered is what it read.  Under
\* SpecRead and SpecWrite the cache does not change after the host's last
\* read, so Rendered is the view of the cache as it is.

\* C6 as stated: with _state = 2, native brightness 10 reads as 255 and
\* native brightness 1 reads as 5.
C6_EndpointsAsStated ==
    (HasRendered /\ _state = 2)
        => /\ _brightness = 10 => Rendered.brightness = 255
           /\ _brightness = 1 => Rendered.brightness = 5

\* C6 as amended: with _state = 2, native brightness 10 reads as 255 and
\* native brightness 1 reads as 29 = round(1 * 251/10 + 4): each native step
\* covers 25.1 host values and reads as the top of its share of 5..255.
C6_Endpoints ==
    (HasRendered /\ _state = 2)
        => /\ _brightness = 10 => Rendered.brightness = 255
           /\ _brightness = 1 => Rendered.brightness = 29

\* A fetch has stored native brightness 1 with state 2 and the host read it.
C6_Witness ==
    /\ HasRendered
    /\ updResult = "returned"
    /\ _state = 2
    /\ _brightness = 1
    /\ Rendered.brightness = 29

Clamp(lo, hi, x) == IF x < lo THEN lo ELSE IF x > hi THEN hi ELSE x

\* 251 * v / 10 + 4 rounded to the nearest integer, then clamped to 1..255.
RoundedProportional(v) == Clamp(1, 255, (251 * v + 45) \div 10)

\* C7: the brightness read is exactly 1 whenever the cached state is 1,
\* whatever the cached brightness, in or out of 1..10; in every other state
\* it is the rounded proportional mapping of the cached brightness.
C7_NightReadsOne ==
    HasRendered
        => /\ _state = 1 => Rendered.brightness = 1
           /\ _state # 1 => Rendered.brightness = RoundedProportional(_brightness)

\* Night state with a cached brightness outside 1..10.
C7_Witness ==
    /\ HasRendered
    /\ updResult = "returned"
    /\ _state = 1
    /\ _brightness = 12
    /\ Rendered.brightness = 1

\* C8: for every native brightness v in 1..10 the brightness read (no night
\* bypass) is an integer in 1..255, no smaller than the conversion of any
\* smaller native value and no larger than that of any larger one.
C8_BrightnessMonotone ==
    (HasRendered /\ _state # 1 /\ _brightness \in 1..10)
        => /\ Rendered.brightness \in 1..255
           /\ \A w \in 1..10 :
                 /\ w <= _brightness
                       => _value_to_brightness(BRIGHTNESS_SCALE, w)
                              <= Rendered.brightness
                 /\ w >= _brightness
                       => Rendered.brightness
                              <= _value_to_brightness(BRIGHTNESS_SCALE, w)

\* The top native value has been read, above the reading of the value below.
C8_Witness ==
    /\ HasRendered
    /\ updResult = "returned"
    /\ _state = 2
    /\ _brightness = 10
    /\ Rendered.brightness = 255
    /\ _value_to_brightness(BRIGHTNESS_SCALE, 9) = 230

\* C9: for every cached colour temperature in 1..11 the colour temperature
\* read lies in 155..500 and is monotonically non-decreasing in the cached
\* value.
C9_ColorTempMonotone ==
    (HasRendered /\ _color_temp \in 1..11)
        => /\ Rendered.color_temp \in 155..500
           /\ \A w \in 1..11 :
                 /\ w <= _color_temp => color_temp_of(w) <= Rendered.color_temp
                 /\ w >= _color_temp => Rendered.color_temp <= color_temp_of(w)

\* The lowest native colour temperature has been read.
C9_Witness ==
    /\ HasRendered
    /\ updResult = "returned"
    /\ _color_temp = 1
    /\ Rendered.color_temp = 186

Abs(x) == IF x < 0 THEN -x ELSE x

\* C10: after async_turn_on(brightness = b) with b in 2..255 has returned,
\* with the cached state 2, the brightness read differs from b by less
\* than 26 (one native step is 251/10 host values).
C10_HostRoundTrip ==
    (/\ call = "async_turn_on"
     /\ cmdResult = "returned"
     /\ Has(kwargs, "brightness")
     /\ kwargs["brightness"] \in 2..255
     /\ _state = 2
     /\ HasRendered)
        => Abs(Rendered.brightness - kwargs["brightness"]) < 26

\* The largest difference: 230 is stored as 10, which reads as 255.
C10_Witness ==
    /\ call = "async_turn_on"
    /\ cmdResult = "returned"
    /\ kwargs = ("brightness" :> 230)
    /\ _state = 2
    /\ _brightness = 10
    /\ HasRendered
    /\ Rendered.brightness = 255

\* C11: async_turn_off issues the single request POST "off" with a null
\* value, and none of its steps changes a cached field, so is_on keeps its
\* value over the whole call.
C11_TurnOffKeepsCache ==
    /\ [](call = "async_turn_off" => posts = <<Post("off", None)>>)
    /\ [][(call' = "async_turn_off" /\ cmdVars' # cmdVars)
             => (cache' = cache /\ is_on' = is_on)]_vars

\* async_turn_off has returned and the light still reads as on.
C11_Witness ==
    /\ call = "async_turn_off"
    /\ cmdResult = "returned"
    /\ Len(posts) = 1
    /\ is_on

\* C12: a refresh whose GET fails at transport level has issued exactly one
\* GET, ends in that failure, changes no cached field and sends no
\* notification.
C12_FailedGetLeavesCache ==
    /\ [](updPc # "idle" \/ updResult # "none" => gets = 1)
    /\ [](updResult = "ClientError" => writes = 0)
    /\ [][(updPc = "get" /\ updPc' = "idle")
             => /\ updResult' = "ClientError"
                /\ gets' = gets
                /\ cache' = cache
                /\ writes' = writes
                /\ ha_state' = ha_state]_vars

\* A poll (not the setup fetch: a command has run since) failed at its GET.
C12_Witness ==
    /\ updResult = "ClientError"
    /\ updPc = "idle"
    /\ gets = 1
    /\ writes = 0
    /\ cache = <<1, 4, 0>>

\* What the host reads of the placeholder defaults (10, 6, 2).
DefaultView == [is_on |-> TRUE, brightness |-> 255, color_temp |-> 343]

\* C13: when the entity is handed to the host the initial fetch has
\* completed, so the host never reads the placeholder defaults.  (The device
\* of Spec never reports the default values.)
C13_FetchBeforeAdd ==
    /\ [][(~added /\ added') => (updPc' = "idle" /\ updResult' = "returned")]_vars
    /\ [](HasRendered => Rendered # DefaultView)

\* C16: the cached state is changed only by _set_update applying a fetched
\* response: no step of async_turn_on (the night branch included) or of
\* async_turn_off changes it, whether the POSTs succeed or fail.
C16_StateOnlyByRefresh ==
    [][_state' # _state => (SetUpdateStep /\ response.json # None
                            /\ Has(response.json[1], "state")
                            /\ _state' = response.json[1]["state"])]_vars

\* async_turn_on has returned on a light cached as off: it still reads off.
C16_Witness ==
    /\ call = "async_turn_on"
    /\ cmdResult = "returned"
    /\ ~NightCall
    /\ _state = 0
    /\ ~is_on

\* C14 as stated: when a POST of async_turn_on fails, the POSTs of the other
\* requested steps are still issued: a call that ended in a failure has
\* issued every POST its arguments ask for.
C14_OtherPostsStillIssued ==
    (call = "async_turn_on" /\ cmdResult = "ClientError" /\ ~NightCall)
        => posts = ExpectedPosts(kwargs)

\* C14 as amended: a POST that fails ends the call at once with that
\* failure.  The POSTs issued before it stay issued (they are the first
\* Len(posts) of the requested ones), none is issued after it, so at most
\* one step fails within one call.
C14_FailureEndsCall ==
    /\ [](cmdResult = "ClientError"
            => /\ cmdPc = "idle"
               /\ Len(posts) >= 1
               /\ (call = "async_turn_on" /\ ~NightCall)
                     => posts = SubSeq(ExpectedPosts(kwargs), 1, Len(posts)))
    /\ [][(cmdResult # "ClientError" /\ cmdResult' = "ClientError")
             => (cmdPc # "idle" /\ posts' = posts)]_vars
    /\ [][(cmdResult = "ClientError" /\ posts' # posts)
             => (cmdResult' = "none" /\ Len(posts') = 1)]_vars

\* "on" succeeded, "bright" failed, and "color-temp" was never issued.
C14_Witness ==
    /\ call = "async_turn_on"
    /\ cmdResult = "ClientError"
    /\ kwargs = ("brightness" :> 128) @@ ("color_temp" :> 500)
    /\ posts = <<Post("on", None), Post("bright", Some(5))>>

\* C15: no rollback.  After an async_turn_on whose last POST, the one that
\* failed, was "bright", the cached brightness is the newly computed
\* ceil((b-4)*10/251); after one whose failed POST was "color-temp", the
\* cached brightness (if given) and colour temperature are the new values.
C15_NoRollback ==
    (call = "async_turn_on" /\ cmdResult = "ClientError")
        => /\ posts[Len(posts)].url = "bright"
                 => _brightness = CeilDiv((kwargs["brightness"] - 4) * 10, 251)
           /\ posts[Len(posts)].url = "color-temp"
                 => /\ _color_temp
                          = CeilDiv((kwargs["color_temp"] - 154) * 11, 346)
                    /\ Has(kwargs, "brightness")
                          => _brightness
                                 = CeilDiv((kwargs["brightness"] - 4) * 10, 251)

\* "on" succeeded, "bright" failed: the cache holds 5, not the 10 from before.
C15_Witness ==
    /\ call = "async_turn_on"
    /\ cmdResult = "ClientError"
    /\ kwargs = ("brightness" :> 128)
    /\ posts = <<Post("on", None), Post("bright", Some(5))>>
    /\ _brightness = 5

\* C17: once the host sends no further command and the device is at rest,
\* with polls that keep running and succeed, the cache eventually equals
\* the device's state and stays equal.
C17_EventuallyReconciled == settled ~> [](cache = device)

\* After the settling point a refresh has brought the cache to the device's
\* state, which the last command (it asked for brightness 3, stored as 0)
\* had left different.
C17_Witness ==
    /\ settled
    /\ call = "async_turn_on"
    /\ kwargs = ("brightness" :> 3)
    /\ cmdResult = "returned"
    /\ updResult = "returned"
    /\ device = <<3, 4, 0>>
    /\ cache = device

\* Fields b, c, st of a cache are torn: two of them come from different
\* responses, or one comes from a response and the state from another.
TornFields(b, c, st) ==
    \E t \in TornStates :
        \/ b = t[1] /\ st # t[3]
        \/ c = t[2] /\ st # t[3]
        \/ b = t[1] /\ c # t[2] /\ \E u \in TornStates : c = u[2]

\* What the host reads of a torn cache.
TornView(v) ==
    \E t \in TornStates :
        LET b == _value_to_brightness(BRIGHTNESS_SCALE, t[1])
            c == color_temp_of(t[2])
        IN  \/ v.brightness = b /\ v.is_on # (t[3] # 0)
            \/ v.color_temp = c /\ v.is_on # (t[3] # 0)
            \/ v.brightness = b /\ v.color_temp # c
                   /\ \E u \in TornStates : v.color_temp = color_temp_of(u[2])

\* C18: a well-formed response replaces the three cached fields in one
\* step: in no state, under any interleaving of refreshes, commands and
\* reads, does the cache hold fields of two different responses, and no
\* read of the properties shows such a mixture.
C18_NoTornRead ==
    /\ ~TornFields(_brightness, _color_temp, _state)
    /\ HasRendered => ~TornView(Rendered)

\* The host has read one response whole while a command is suspended at
\* its POST and the other response is about to replace the cache.
C18_Witness ==
    /\ HasRendered
    /\ cache = <<3, 7, 2>>
    /\ Rendered = [is_on |-> TRUE, brightness |-> 79, color_temp |-> 375]
    /\ cmdPc = "bright"
    /\ updPc = "json"
    /\ response.json = Some(Object(Some(1), Some(4), Some(0)))

\* C19: a step of async_turn_on that stores the native brightness computed
\* from the host brightness just read of a cache with state 2 and native
\* brightness n in 1..10 stores a value within one native step of n and
\* inside 1..10; a step that stores the native colour temperature computed
\* from the host colour temperature just read of a native n in 1..11 stores a
\* value within one native step of n and inside 1..11.
C19_NativeRoundTrip ==
    [][/\ (/\ cmdPc = "on" /\ cmdPc' = "bright"
           /\ _state = 2
           /\ _brightness \in DomainBrightnesses
           /\ kwargs["brightness"] = brightness)
          => /\ Abs(_brightness' - _brightness) <= 1
             /\ _brightness' \in DomainBrightnesses
       /\ (/\ cmdPc # "color-temp" /\ cmdPc' = "color-temp"
           /\ _color_temp \in DomainColorTemps
           /\ kwargs["color_temp"] = color_temp)
          => /\ Abs(_color_temp' - _color_temp) <= 1
             /\ _color_temp' \in DomainColorTemps]_vars

\* Native brightness 5 and colour temperature 3 were fetched with state 2,
\* read as 130 and 249, and written back: the cache now holds 6 and 4.
C19_Witness ==
    /\ HasRendered
    /\ Rendered = [is_on |-> TRUE, brightness |-> 130, color_temp |-> 249]
    /\ kwargs = ("brightness" :> 130) @@ ("color_temp" :> 249)
    /\ cmdResult = "returned"
    /\ cache = <<6, 4, 2>>

\* The native values async_turn_on computes from the arguments kw.
NativeBrightnessOf(kw) == CeilDiv((kw["brightness"] - 4) * 10, 251)
NativeColorTempOf(kw) == CeilDiv((kw["color_temp"] - 154) * 11, 346)

\* Every 'bright' and 'color-temp' POST in the sequence ps, issued by a
\* call with arguments kw, carries the value computed from kw.
SendsOwnValues(ps, kw) ==
    \A i \in DOMAIN ps :
        /\ ps[i].url = "bright"
              => /\ Has(kw, "brightness")
                 /\ ps[i].json.value = Some(NativeBrightnessOf(kw))
        /\ ps[i].url = "color-temp"
              => /\ Has(kw, "color_temp")
                 /\ ps[i].json.value = Some(NativeColorTempOf(kw))

\* C20: with two async_turn_on calls and the refreshes interleaved at their
\* awaits, every 'bright' POST of a call carries the native value computed
\* from that call's brightness and every 'color-temp' POST the native value
\* computed from that call's colour temperature, whatever the cache has
\* been overwritten with while the call was suspended.
C20_SendsOwnValues ==
    /\ SendsOwnValues(posts, kwargs)
    /\ SendsOwnValues(posts2, kwargs2)

\* The first call sent 5 for its brightness 128, was suspended, the second
\* call stored 10 over it and a refresh then stored the device's 7 and 4;
\* the first call went on to send 11 for its colour temperature 500.
C20_Witness ==
    /\ kwargs = ("brightness" :> 128) @@ ("color_temp" :> 500)
    /\ posts = <<Post("on", None), Post("bright", Some(5)),
                 Post("color-temp", Some(11))>>
    /\ posts2 = <<Post("on", None), Post("bright", Some(10))>>
    /\ cmdPc2 = "bright"
    /\ cmdResult = "returned"
    /\ cache = <<7, 11, 0>>
    /\ gets > 0 /\ updPc = "idle"

=============================================================================
